---- MODULE Spec2Model ----
(***************************************************************************)
(* Model of the TemplateService scaffold of roadtemplates.                 *)
(*                                                                         *)
(* A TemplateService instance owns one nullable field, config.  init and   *)
(* health are async methods without any await in their bodies: the body    *)
(* runs to completion when the method is invoked and the returned promise  *)
(* is already settled; the caller observes the promise later, when it      *)
(* awaits it.  The model keeps the instances, the log of invocations in    *)
(* invocation order (each with the promise it returned) and the set of     *)
(* promises the callers have awaited so far.                               *)
(***************************************************************************)
EXTENDS Integers, Sequences, FiniteSets

\* Number of method invocations explored on the two instances together.
MaxCalls == 3

\* The instances of the program: the one the test constructs with
\* new TemplateService() and the module's default-exported singleton.
Handles == {"svc", "default"}

\* Field values of TemplateConfig: the test's values and the degenerate ones.
Endpoints == {"", "http://localhost"}
Timeouts == {0, 5000}

\* interface TemplateConfig { endpoint: string; timeout: number }
TemplateConfig == [endpoint : Endpoints, timeout : Timeouts]

\* The JavaScript values null and undefined.
Null == [null |-> TRUE]
Undefined == [undefined |-> TRUE]

\* A freshly constructed instance: private config = null.
TemplateService == [config |-> Null]

VARIABLES instance, calls, awaited

vars == <<instance, calls, awaited>>

----------------------------------------------------------------------------
(* Mutations of the methods, used to show that the properties below depend *)
(* on the code.                                                            *)

\* init that forgets to store its argument.
init_forget(this, config) ==
    [this |-> this, status |-> "fulfilled", value |-> Undefined]

\* init that rejects an empty endpoint or a non-positive timeout.
init_validating(this, config) ==
    IF config.endpoint = "" \/ config.timeout <= 0
    THEN [this |-> this, status |-> "rejected", value |-> Undefined]
    ELSE [this |-> [this EXCEPT !.config = config],
          status |-> "fulfilled", value |-> Undefined]

\* init that stores null for a configuration without an endpoint.
init_nulling(this, config) ==
    [this |-> [this EXCEPT !.config =
                   IF config.endpoint = "" THEN Null ELSE config],
     status |-> "fulfilled", value |-> Undefined]

\* init that throws when the instance is already initialized.
init_once_throwing(this, config) ==
    IF this.config # Null
    THEN [this |-> this, status |-> "rejected", value |-> Undefined]
    ELSE [this |-> [this EXCEPT !.config = config],
          status |-> "fulfilled", value |-> Undefined]

\* init that keeps the first configuration (this.config ??= config).
init_first_wins(this, config) ==
    [this |-> [this EXCEPT !.config =
                   IF this.config # Null THEN this.config ELSE config],
     status |-> "fulfilled", value |-> Undefined]

\* health that compares against undefined instead of null.
health_undefined_check(this) ==
    [this |-> this, status |-> "fulfilled", value |-> TRUE]

\* health with the comparison inverted (=== null).
health_inverted(this) ==
    [this |-> this, status |-> "fulfilled", value |-> (this.config = Null)]

\* health that throws on an uninitialized instance.
health_throwing(this) ==
    IF this.config = Null
    THEN [this |-> this, status |-> "rejected", value |-> Undefined]
    ELSE [this |-> this, status |-> "fulfilled", value |-> TRUE]

\* health that consumes the configuration it reports.
health_consuming(this) ==
    [this |-> [this EXCEPT !.config = Null],
     status |-> "fulfilled", value |-> (this.config # Null)]

\* config declared static: one field shared by all instances.
SetInstance_static(inst, h, obj) == [g \in DOMAIN inst |-> obj]

----------------------------------------------------------------------------
(* The methods, as functions from the instance and the argument to the     *)
(* instance afterwards and the promise the call returns.                   *)

\* async init(config) { this.config = config; }
init(this, config) ==
    [this |-> [this EXCEPT !.config = config],
     status |-> "fulfilled", value |-> Undefined]

\* async health() { return this.config !== null; }
health(this) ==
    [this |-> this, status |-> "fulfilled", value |-> (this.config # Null)]

\* config is an instance field: a method writes the instance it is called on.
SetInstance(inst, h, obj) == [inst EXCEPT ![h] = obj]

----------------------------------------------------------------------------
Init ==
    /\ instance = [h \in Handles |-> TemplateService]
    /\ calls = <<>>
    /\ awaited = {}

\* h.init(c) is invoked: the body runs, the settled promise is returned.
CallInit(h, c) ==
    /\ Len(calls) < MaxCalls
    /\ LET r == init(instance[h], c) IN
         /\ instance' = SetInstance(instance, h, r.this)
         /\ calls' = Append(calls, [handle |-> h, op |-> "init", arg |-> c,
                                     status |-> r.status, value |-> r.value])
    /\ UNCHANGED awaited

\* h.health() is invoked: the body runs, the settled promise is returned.
CallHealth(h) ==
    /\ Len(calls) < MaxCalls
    /\ LET r == health(instance[h]) IN
         /\ instance' = SetInstance(instance, h, r.this)
         /\ calls' = Append(calls, [handle |-> h, op |-> "health",
                                     arg |-> Undefined,
                                     status |-> r.status, value |-> r.value])
    /\ UNCHANGED awaited

\* The caller awaits the promise of the i-th invocation and observes it.
Await(i) ==
    /\ i \in 1..Len(calls)
    /\ i \notin awaited
    /\ awaited' = awaited \cup {i}
    /\ UNCHANGED <<instance, calls>>

Next ==
    \/ \E h \in Handles, c \in TemplateConfig : CallInit(h, c)
    \/ \E h \in Handles : CallHealth(h)
    \/ \E i \in 1..MaxCalls : Await(i)

Spec == Init /\ [][Next]_vars

----------------------------------------------------------------------------
(* Vocabulary of the properties.                                           *)

\* The invocations made on instance h, in invocation order.
HandleCalls(h) == SelectSeq(calls, LAMBDA r : r.handle = h)

\* The positions of the init invocations in a sequence of invocations.
InitIdx(hc) == {i \in 1..Len(hc) : hc[i].op = "init"}

HasInit(h) == InitIdx(HandleCalls(h)) # {}

Min(S) == CHOOSE x \in S : \A y \in S : x <= y
Max(S) == CHOOSE x \in S : \A y \in S : x >= y

FirstInitArg(h) == LET hc == HandleCalls(h) IN hc[Min(InitIdx(hc))].arg
LastInitArg(h) == LET hc == HandleCalls(h) IN hc[Max(InitIdx(hc))].arg

Initialized(h) == instance[h].config # Null

\* This step is an invocation on h.
NewCallOn(h) == Len(calls') = Len(calls) + 1 /\ calls'[Len(calls')].handle = h

NewCall == calls'[Len(calls')]

TestConfig == [endpoint |-> "http://localhost", timeout |-> 5000]
DegenerateConfig == [endpoint |-> "", timeout |-> 0]

----------------------------------------------------------------------------
\* C1: on a fresh instance, init(c) followed by health() makes health()
\* return true, for every configuration c.
C1_InitThenHealthTrue ==
    \A h \in Handles :
        LET hc == HandleCalls(h) IN
            (Len(hc) >= 2 /\ hc[1].op = "init" /\ hc[2].op = "health")
                => (hc[2].status = "fulfilled" /\ hc[2].value = TRUE)

C1_Witness ==
    LET hc == HandleCalls("svc") IN
        /\ Len(hc) >= 2
        /\ hc[1].op = "init" /\ hc[1].arg = TestConfig
        /\ hc[2].op = "health" /\ hc[2].value = TRUE
        /\ awaited = {1, 2}

\* C2: while init has never been invoked on an instance, every health() on
\* it returns false, however many there are.
C2_HealthFalseBeforeInit ==
    \A h \in Handles :
        LET hc == HandleCalls(h) IN
            ~HasInit(h) =>
                \A i \in 1..Len(hc) :
                    hc[i].status = "fulfilled" /\ hc[i].value = FALSE

C2_Witness ==
    LET hc == HandleCalls("svc") IN
        /\ ~HasInit("svc")
        /\ Len(hc) >= 2
        /\ \A i \in 1..Len(hc) : hc[i].op = "health" /\ hc[i].value = FALSE

\* C3: Initialized is terminal: an instance on which init has been invoked
\* holds a configuration, no step takes an initialized instance back to
\* holding none, and every health() invoked on it returns true.
C3_InitializedIsTerminal ==
    /\ [](\A h \in Handles : HasInit(h) => Initialized(h))
    /\ [][\A h \in Handles :
            Initialized(h) =>
                /\ Initialized(h)'
                /\ (NewCallOn(h) /\ NewCall.op = "health")
                       => (NewCall.status = "fulfilled"
                           /\ NewCall.value = TRUE)]_vars

C3_Witness ==
    LET hc == HandleCalls("default") IN
        /\ Len(hc) = 3
        /\ hc[1].op = "init" /\ hc[2].op = "init" /\ hc[3].op = "health"
        /\ hc[2].arg = DegenerateConfig
        /\ Initialized("default")

\* C4 as stated: once initialized, the held configuration stays equal to
\* the argument of the first init, further init calls included.
C4_Original ==
    \A h \in Handles :
        HasInit(h) => instance[h].config = FirstInitArg(h)

\* C4 amended: once initialized, the held configuration stays equal to the
\* argument of the first init as long as no later init on the instance is
\* given a different configuration.
C4_HeldUntilDifferentInit ==
    \A h \in Handles :
        LET hc == HandleCalls(h) IN
            (HasInit(h)
             /\ \A i \in InitIdx(hc) : hc[i].arg = FirstInitArg(h))
                => instance[h].config = FirstInitArg(h)

C4_Witness ==
    LET hc == HandleCalls("svc") IN
        /\ Len(hc) = 3
        /\ hc[1].op = "init" /\ hc[2].op = "health" /\ hc[3].op = "init"
        /\ hc[3].arg = hc[1].arg
        /\ instance["svc"].config = hc[1].arg

\* C5: health() is a pure read: an invocation of health() leaves every
\* instance as it was and does not fail, and it returns what the previous
\* invocation on the same instance returned when that one was a health() too.
C5_HealthPureRead ==
    [][\A h \in Handles :
         (NewCallOn(h) /\ NewCall.op = "health") =>
             /\ instance' = instance
             /\ NewCall.status = "fulfilled"
             /\ LET hc == HandleCalls(h) IN
                    (Len(hc) >= 1 /\ hc[Len(hc)].op = "health")
                        => NewCall.value = hc[Len(hc)].value]_vars

C5_Witness ==
    /\ \E h \in Handles :
           LET hc == HandleCalls(h) IN
               /\ Len(hc) = 3
               /\ hc[1].op = "init"
               /\ hc[2].op = "health" /\ hc[3].op = "health"
               /\ hc[2].value = TRUE /\ hc[3].value = TRUE
               /\ instance[h].config = hc[1].arg

\* C6: init validates nothing and cannot fail: every init, whatever the
\* endpoint and the timeout, is fulfilled and stores a configuration, and a
\* health() invoked right after it returns true.
C6_InitNeverFails ==
    \A h \in Handles :
        LET hc == HandleCalls(h) IN
            \A i \in InitIdx(hc) :
                /\ hc[i].status = "fulfilled"
                /\ (i < Len(hc) /\ hc[i + 1].op = "health")
                       => (hc[i + 1].status = "fulfilled"
                           /\ hc[i + 1].value = TRUE)

C6_Witness ==
    LET hc == HandleCalls("svc") IN
        /\ Len(hc) = 2
        /\ hc[1].op = "init" /\ hc[1].arg = DegenerateConfig
        /\ hc[1].status = "fulfilled"
        /\ hc[2].op = "health" /\ hc[2].value = TRUE

\* C7: an init on an already initialized instance, with a configuration
\* different from the first one, does not fail, and a health() invoked
\* after it returns true.
C7_SecondInitDoesNotFail ==
    \A h \in Handles :
        LET hc == HandleCalls(h) IN
            \A j \in InitIdx(hc) :
                (\E i \in InitIdx(hc) : i < j /\ hc[j].arg # FirstInitArg(h))
                    => /\ hc[j].status = "fulfilled"
                       /\ \A k \in (j + 1)..Len(hc) :
                              hc[k].op = "health"
                                  => (hc[k].status = "fulfilled"
                                      /\ hc[k].value = TRUE)

C7_Witness ==
    \E h \in Handles :
        LET hc == HandleCalls(h) IN
            /\ Len(hc) = 3
            /\ hc[1].op = "init" /\ hc[2].op = "init" /\ hc[3].op = "health"
            /\ hc[1].arg # hc[2].arg
            /\ hc[2].status = "fulfilled"
            /\ hc[3].value = TRUE

\* C8: last write wins: after any sequence of init calls the held
\* configuration is the argument of the most recent init on the instance.
C8_LastWriteWins ==
    \A h \in Handles :
        HasInit(h) => instance[h].config = LastInitArg(h)

C8_Witness ==
    \E h \in Handles :
        LET hc == HandleCalls(h) IN
            /\ Cardinality(InitIdx(hc)) >= 2
            /\ FirstInitArg(h) # LastInitArg(h)
            /\ instance[h].config = LastInitArg(h)
            /\ instance[h].config.endpoint = LastInitArg(h).endpoint
            /\ instance[h].config.timeout = LastInitArg(h).timeout

\* C9: init takes effect when it is invoked, not when its promise is
\* awaited: a health() returns true exactly when an init was invoked on the
\* instance before it, whichever promises have been awaited, and awaiting a
\* promise changes neither the instances nor any result.
C9_EffectAtInvocation ==
    /\ [](\A i \in 1..Len(calls) :
            calls[i].op = "health" =>
                /\ calls[i].status = "fulfilled"
                /\ calls[i].value =
                       (\E j \in 1..(i - 1) :
                            /\ calls[j].op = "init"
                            /\ calls[j].handle = calls[i].handle))
    /\ [][awaited' # awaited => (instance' = instance /\ calls' = calls)]_vars

C9_Witness ==
    /\ Len(calls) = 3
    /\ \A i \in 1..3 : calls[i].handle = "svc"
    /\ calls[1].op = "health" /\ calls[1].value = FALSE
    /\ calls[2].op = "init"
    /\ calls[3].op = "health" /\ calls[3].value = TRUE
    /\ awaited = {3}

\* C10: instances are independent: an invocation on one instance changes
\* neither the configuration held by any other instance nor what health()
\* returns on it.
C10_HandlesIndependent ==
    [][\A h \in Handles :
         NewCallOn(h) =>
             \A g \in Handles \ {h} :
                 /\ instance'[g] = instance[g]
                 /\ health(instance'[g]).value = health(instance[g]).value]_vars

C10_Witness ==
    /\ Len(calls) = 3
    /\ calls[1].handle = "svc" /\ calls[1].op = "init"
    /\ calls[2].handle = "default" /\ calls[2].op = "health"
    /\ calls[2].value = FALSE
    /\ calls[3].handle = "default" /\ calls[3].op = "init"
    /\ instance["svc"].config = calls[1].arg
    /\ instance["default"].config = calls[3].arg
    /\ calls[1].arg # calls[3].arg

====
